---- MODULE Spec2Model ----
(***************************************************************************)
(* Model of generate/src/mem/mod.rs: the abstract memory of rustlantis.     *)
(* BasicMemory owns the allocations (runs of abstract bytes, each run with  *)
(* a per-byte borrow stack kept in a RangeMap) and the reverse index        *)
(* `pointers` from an edge to the RunPointers recorded for it.              *)
(*                                                                         *)
(* Offsets, run ids and allocation ids are 0-based as in the source; TLA+   *)
(* sequences are 1-based, so byte i of a run is element i + 1.              *)
(***************************************************************************)
EXTENDS Integers, Sequences, FiniteSets, TLC

\* ---------------------------------------------------------------- bounds

\* Number of borrow calls explored after the allocation (Spec).
MaxOps == 4
\* Number of store calls explored from BasicMemory::new() (SpecMem).
MaxMemOps == 4
\* Number of borrow calls explored with arbitrary arguments (SpecApi).
MaxApiOps == 3

\* ------------------------------------------------------------ input sets

\* ProjectionIndex values handed in by the driver.
Edge == {1, 2}
NoEdge == 0

BorrowType == {"Raw", "Shared", "Exclusive"}
AbstractByte == {"Uninit", "Init"}

\* The borrow types the driver passes. No method tests for Raw or for
\* Exclusive: the only comparison is with Shared, so Exclusive stands for both.
DriverBorrowTypes == {"Shared", "Exclusive"}

\* The run sizes a build closure asks for, one new_run call per element:
\* one run of three bytes, or a two-byte run and a one-byte run (a value
\* with padding between its fields).
Layouts == {<<3>>, <<2, 1>>}

\* ----------------------------------------------------------------- state

VARIABLES
    allocations,   \* BasicMemory.allocations: IndexVec<AllocId, Allocation>
    pointers,      \* BasicMemory.pointers: HashMap<ProjectionIndex, SmallVec<RunPointer>>
    ret,           \* the last store call: its name and whether it panicked
    nops,          \* number of store calls made so far
    deallocated    \* the AllocIds deallocate has been called with

vars == <<allocations, pointers, ret, nops, deallocated>>

\* ------------------------------------------------------------- utilities

RECURSIVE SortedSeq(_)
\* BTreeSet iteration collected into a Vec: ascending, duplicate free.
SortedSeq(S) ==
    IF S = {} THEN <<>>
    ELSE LET m == CHOOSE x \in S : \A y \in S : x <= y
         IN <<m>> \o SortedSeq(S \ {m})

\* Vec::contains
Contains(seq, x) == \E i \in 1..Len(seq) : seq[i] = x

\* Vec::remove(i), i 1-based here
RemoveAt(seq, i) == SubSeq(seq, 1, i - 1) \o SubSeq(seq, i + 1, Len(seq))

\* The edges of a slice of a stack, stack[from..to] with 1-based inclusive ends.
EdgesOf(stack, from, to) == {stack[i].edge : i \in from..to}

\* stack.iter().position(|b| b.edge == edge): 1-based, 0 for None.
position_edge(stack, edge) ==
    IF \E i \in 1..Len(stack) : stack[i].edge = edge
    THEN CHOOSE i \in 1..Len(stack) :
            /\ stack[i].edge = edge
            /\ \A j \in 1..(i - 1) : stack[j].edge /= edge
    ELSE 0

\* stack.iter().position(|b| b.borrow_type == Shared): 1-based, 0 for None.
position_shared(stack) ==
    IF \E i \in 1..Len(stack) : stack[i].borrow_type = "Shared"
    THEN CHOOSE i \in 1..Len(stack) :
            /\ stack[i].borrow_type = "Shared"
            /\ \A j \in 1..(i - 1) : stack[j].borrow_type /= "Shared"
    ELSE 0

\* ------------------------------------------------------------- RangeMap

RECURSIVE IterFrom(_, _, _)
\* The entries of the interval map between byte lo and byte hi (exclusive):
\* adjacent bytes with identical stacks share one entry.
IterFrom(rs, lo, hi) ==
    IF lo >= hi THEN <<>>
    ELSE LET e == CHOOSE e \in (lo + 1)..hi :
                     /\ \A i \in lo..(e - 1) : rs[i + 1] = rs[lo + 1]
                     /\ (e = hi \/ rs[e + 1] /= rs[lo + 1])
         IN <<[start |-> lo, end |-> e]>> \o IterFrom(rs, e, hi)

\* RangeMap::iter / iter_mut (offset, len): the covered sub-intervals in
\* ascending order; nothing for a zero-length range.
iter(rs, offset, len) == IterFrom(rs, offset, offset + len)

\* Whether byte i (0-based) lies in [offset, offset + len).
InRange(i, offset, len) == offset <= i /\ i < offset + len

\* ------------------------------------------------------------------ Run

new_uninit(size) ==
    [bytes     |-> [i \in 1..size |-> "Uninit"],
     ref_stack |-> [i \in 1..size |-> <<>>]]

run_size(run) == Len(run.bytes)

add_borrow(run, offset, len, borrow_type, edge) ==
    [run EXCEPT !.ref_stack =
        [i \in 1..Len(run.ref_stack) |->
            IF InRange(i - 1, offset, len)
            THEN Append(run.ref_stack[i], [borrow_type |-> borrow_type, edge |-> edge])
            ELSE run.ref_stack[i]]]

\* A remove_borrow that pops the oldest borrow of a byte carrying edge
\* instead of the borrow found for edge.
remove_borrow_first(run, offset, len, edge) ==
    [run EXCEPT !.ref_stack =
        [i \in 1..Len(run.ref_stack) |->
            LET stack == run.ref_stack[i]
                p     == position_edge(stack, edge)
            IN IF InRange(i - 1, offset, len) /\ p /= 0
               THEN RemoveAt(stack, 1)
               ELSE stack]]

remove_borrow(run, offset, len, edge) ==
    [run EXCEPT !.ref_stack =
        [i \in 1..Len(run.ref_stack) |->
            LET stack == run.ref_stack[i]
                p     == position_edge(stack, edge)
            IN IF InRange(i - 1, offset, len) /\ p /= 0
               THEN RemoveAt(stack, p)
               ELSE stack]]

\* Run::below
below(run, offset, len, edge) ==
    LET its == iter(run.ref_stack, offset, len)
    IN SortedSeq(UNION {
          LET stack == run.ref_stack[its[k].start + 1]
              index == position_edge(stack, edge)
          IN IF index /= 0 THEN EdgesOf(stack, index, Len(stack)) ELSE {}
          : k \in 1..Len(its)})

\* A first_shared whose loop goes on to the next sub-interval when a
\* stack has no Shared borrow.
first_shared_any(run, offset, len) ==
    LET its  == iter(run.ref_stack, offset, len)
        hits == {k \in 1..Len(its) :
                    position_shared(run.ref_stack[its[k].start + 1]) /= 0}
    IN IF hits = {} THEN NoEdge
       ELSE LET k     == CHOOSE k \in hits : \A j \in hits : k <= j
                stack == run.ref_stack[its[k].start + 1]
            IN stack[position_shared(stack)].edge

\* Run::first_shared: returns inside the first iteration of the loop.
first_shared(run, offset, len) ==
    LET its == iter(run.ref_stack, offset, len)
    IN IF Len(its) = 0 THEN NoEdge
       ELSE LET stack == run.ref_stack[its[1].start + 1]
                fs    == position_shared(stack)
            IN IF fs /= 0 THEN stack[fs].edge ELSE NoEdge

\* A below_first_shared that starts one entry late: stack[first_shared + 1..]
below_first_shared_after(run, offset, len) ==
    LET its == iter(run.ref_stack, offset, len)
    IN SortedSeq(UNION {
          LET stack == run.ref_stack[its[k].start + 1]
              fs    == position_shared(stack)
          IN IF fs /= 0 THEN EdgesOf(stack, fs + 1, Len(stack)) ELSE {}
          : k \in 1..Len(its)})

\* Run::below_first_shared: stack[first_shared..]
below_first_shared(run, offset, len) ==
    LET its == iter(run.ref_stack, offset, len)
    IN SortedSeq(UNION {
          LET stack == run.ref_stack[its[k].start + 1]
              fs    == position_shared(stack)
          IN IF fs /= 0 THEN EdgesOf(stack, fs, Len(stack)) ELSE {}
          : k \in 1..Len(its)})

\* A slip in above_first_shared: the slice stack[first_shared..] instead.
above_first_shared_from(run, offset, len) ==
    LET its == iter(run.ref_stack, offset, len)
    IN SortedSeq(UNION {
          LET stack == run.ref_stack[its[k].start + 1]
              fs    == position_shared(stack)
          IN IF fs /= 0 THEN EdgesOf(stack, fs, Len(stack)) ELSE {}
          : k \in 1..Len(its)})

\* Run::above_first_shared: stack[..first_shared]
above_first_shared(run, offset, len) ==
    LET its == iter(run.ref_stack, offset, len)
    IN SortedSeq(UNION {
          LET stack == run.ref_stack[its[k].start + 1]
              fs    == position_shared(stack)
          IN IF fs /= 0 THEN EdgesOf(stack, 1, fs - 1) ELSE {}
          : k \in 1..Len(its)})

RECURSIVE RemovedEdges(_, _, _, _)
\* The Vec `edges` of Run::remove_all_below: for each covered sub-interval
\* from the k-th on, the edges of stack[index..] in stack order.
RemovedEdges(rs, its, k, edge) ==
    IF k > Len(its) THEN <<>>
    ELSE LET stack == rs[its[k].start + 1]
             index == position_edge(stack, edge)
             here  == IF index /= 0
                      THEN [j \in 1..(Len(stack) - index + 1) |-> stack[index + j - 1].edge]
                      ELSE <<>>
         IN here \o RemovedEdges(rs, its, k + 1, edge)

\* A remove_all_below that takes out the borrow of edge alone and keeps
\* the borrows pushed after it.
remove_all_below_only(run, offset, len, edge) ==
    [run   |-> remove_borrow(run, offset, len, edge),
     edges |-> RemovedEdges(run.ref_stack, iter(run.ref_stack, offset, len), 1, edge)]

\* Run::remove_all_below: the run after truncation and the returned Vec.
remove_all_below(run, offset, len, edge) ==
    [run   |-> [run EXCEPT !.ref_stack =
                  [i \in 1..Len(run.ref_stack) |->
                      LET stack == run.ref_stack[i]
                          index == position_edge(stack, edge)
                      IN IF InRange(i - 1, offset, len) /\ index /= 0
                         THEN SubSeq(stack, 1, index - 1)
                         ELSE stack]],
     edges |-> RemovedEdges(run.ref_stack, iter(run.ref_stack, offset, len), 1, edge)]

\* A can_read_through with any() in place of all().
can_read_through_any(run, offset, len, edge) ==
    LET its == iter(run.ref_stack, offset, len)
    IN \E k \in 1..Len(its) :
          position_edge(run.ref_stack[its[k].start + 1], edge) /= 0

can_read_through(run, offset, len, edge) ==
    LET its == iter(run.ref_stack, offset, len)
    IN \A k \in 1..Len(its) :
          position_edge(run.ref_stack[its[k].start + 1], edge) /= 0

can_write_through(run, offset, len, edge) ==
    Contains(above_first_shared(run, offset, len), edge)

\* ----------------------------------------------------------- addressing

\* An overlap test for half-open ranges that share a byte.
range_overlap_strict(self, other) == self.start < other.end /\ other.start < self.end

\* RangeExt::overlap for Range<usize>: inclusive at both ends.
range_overlap(self, other) == self.start <= other.end /\ other.start <= self.end

\* RangeExt::subtract for Range<usize>: [left, right], each an Option
\* (<<>> for None, <<r>> for Some(r)); the leading assertion is subtract_ok.
subtract_ok(self, other) == range_overlap(self, other)

\* A subtract whose left fragment runs to the end of other, not to its start.
subtract_to_end(self, other) ==
    LET left  == IF self.start < other.start
                 THEN <<[start |-> self.start, end |-> other.end]>>
                 ELSE <<>>
        right == IF other.end < self.end
                 THEN <<[start |-> other.end, end |-> self.end]>>
                 ELSE <<>>
    IN <<left, right>>

subtract(self, other) ==
    LET left  == IF self.start < other.start
                 THEN <<[start |-> self.start, end |-> other.start]>>
                 ELSE <<>>
        right == IF other.end < self.end
                 THEN <<[start |-> other.end, end |-> self.end]>>
                 ELSE <<>>
    IN <<left, right>>

\* Range::count(): the number of integers in start..end.
range_count(range) == IF range.end > range.start THEN range.end - range.start ELSE 0

RunPointer(alloc_id, run, offset, size) ==
    [alloc_id |-> alloc_id, run |-> run, offset |-> offset, size |-> size]

from_bytes_range(range, alloc_id, run) ==
    RunPointer(alloc_id, run, range.start, range_count(range))

bytes_range(ptr) == [start |-> ptr.offset, end |-> ptr.offset + ptr.size]

\* RunPointer::overlap
overlap(self, other) ==
    IF self.alloc_id /= other.alloc_id THEN FALSE
    ELSE IF self.run /= other.run THEN FALSE
    ELSE range_overlap(bytes_range(self), bytes_range(other))

\* ---------------------------------------------------------- BasicMemory

\* self.allocations[alloc_id].runs[run]
RunAt(allocs, ptr) == allocs[ptr.alloc_id + 1].runs[ptr.run + 1]

SetRun(allocs, ptr, run) ==
    [allocs EXCEPT ![ptr.alloc_id + 1].runs[ptr.run + 1] = run]

\* HashMap::insert and HashMap::remove
MapInsert(map, key, value) ==
    [k \in DOMAIN map \cup {key} |-> IF k = key THEN value ELSE map[k]]

MapRemove(map, key) == [k \in DOMAIN map \ {key} |-> map[k]]

\* AllocationBuilder::new_run called once per size, then build().
build(sizes) ==
    [runs |-> [r \in 1..Len(sizes) |-> new_uninit(sizes[r])], live |-> TRUE]

allocate_with_builder(m, sizes) ==
    [m EXCEPT !.allocations = Append(m.allocations, build(sizes))]

\* A deallocate that also resets the runs of the allocation.
deallocate_erase(m, alloc_id) ==
    [m EXCEPT !.allocations[alloc_id + 1] =
        [runs |-> [r \in 1..Len(@.runs) |-> new_uninit(run_size(@.runs[r]))],
         live |-> FALSE]]

deallocate(m, alloc_id) == [m EXCEPT !.allocations[alloc_id + 1].live = FALSE]

is_live(m, alloc_id) == m.allocations[alloc_id + 1].live

\* A bytes / bytes_mut without the liveness assertion.
bytes_unchecked(m, run_ptr) == TRUE

\* BasicMemory::bytes / bytes_mut: the assertion, then the slice.
bytes_ok(m, run_ptr) == m.allocations[run_ptr.alloc_id + 1].live

bytes(m, run_ptr) ==
    SubSeq(RunAt(m.allocations, run_ptr).bytes,
           run_ptr.offset + 1, run_ptr.offset + run_ptr.size)

\* bytes_mut(run_ptr).copy_from_slice(data) / .fill(val) write these bytes.
write_bytes(m, run_ptr, data) ==
    LET run == RunAt(m.allocations, run_ptr)
    IN [m EXCEPT !.allocations = SetRun(m.allocations, run_ptr,
          [run EXCEPT !.bytes =
              [i \in 1..Len(run.bytes) |->
                  IF InRange(i - 1, run_ptr.offset, run_ptr.size)
                  THEN data[i - run_ptr.offset]
                  ELSE run.bytes[i]]])]

fill_ok(m, run_ptr) == bytes_ok(m, run_ptr)

fill(m, run_ptr, val) == write_bytes(m, run_ptr, [i \in 1..run_ptr.size |-> val])

\* BasicMemory::copy: assert_eq!, bytes(src), bytes_mut(dst) in this order.
copy_ok(m, dst, src) ==
    /\ dst.size = src.size
    /\ bytes_ok(m, src)
    /\ bytes_ok(m, dst)

\* A copy without the temporary: byte k of src is read only after bytes
\* 0..k-1 of dst have been written.
copy_forward(m, dst, src) ==
    LET at(ptr, k) == RunPointer(ptr.alloc_id, ptr.run, ptr.offset + k, 1)
        step[k \in 0..dst.size] ==
            IF k = 0 THEN m
            ELSE write_bytes(step[k - 1], at(dst, k - 1),
                             bytes(step[k - 1], at(src, k - 1)))
    IN step[dst.size]

copy(m, dst, src) ==
    LET tmp == bytes(m, src)
    IN write_bytes(m, dst, tmp)

RECURSIVE AddBorrows(_, _, _, _, _)
\* The loop of copy_ref: add_borrow for the k-th recorded pointer onwards.
AddBorrows(allocs, run_ptrs, k, borrow_type, edge) ==
    IF k > Len(run_ptrs) THEN allocs
    ELSE LET p == run_ptrs[k]
         IN AddBorrows(
               SetRun(allocs, p, add_borrow(RunAt(allocs, p), p.offset, p.size, borrow_type, edge)),
               run_ptrs, k + 1, borrow_type, edge)

copy_ref_ok(m, new, old) == new /= old /\ old \in DOMAIN m.pointers

copy_ref(m, new, old, borrow_type) ==
    [allocations |-> AddBorrows(m.allocations, m.pointers[old], 1, borrow_type, new),
     pointers    |-> MapInsert(m.pointers, new, m.pointers[old])]

add_ref(m, run_ptr, borrow_type, edge) ==
    [allocations |-> SetRun(m.allocations, run_ptr,
                        add_borrow(RunAt(m.allocations, run_ptr),
                                   run_ptr.offset, run_ptr.size, borrow_type, edge)),
     pointers    |-> IF edge \in DOMAIN m.pointers
                     THEN [m.pointers EXCEPT ![edge] = Append(@, run_ptr)]
                     ELSE MapInsert(m.pointers, edge, <<run_ptr>>)]

RECURSIVE RemoveBorrows(_, _, _, _)
\* The loop of remove_ref: remove_borrow for the k-th recorded pointer onwards.
RemoveBorrows(allocs, run_ptrs, k, edge) ==
    IF k > Len(run_ptrs) THEN allocs
    ELSE LET p == run_ptrs[k]
         IN RemoveBorrows(
               SetRun(allocs, p, remove_borrow(RunAt(allocs, p), p.offset, p.size, edge)),
               run_ptrs, k + 1, edge)

remove_ref(m, edge) ==
    IF edge \in DOMAIN m.pointers
    THEN [allocations |-> RemoveBorrows(m.allocations, m.pointers[edge], 1, edge),
          pointers    |-> MapRemove(m.pointers, edge)]
    ELSE m

RECURSIVE Updated(_, _, _)
\* The SmallVec `updated` of derange, built from the k-th stored pointer on.
Updated(all_run_ptrs, k, run_ptr) ==
    IF k > Len(all_run_ptrs) THEN <<>>
    ELSE LET stored == all_run_ptrs[k]
             lr     == subtract(bytes_range(stored), bytes_range(run_ptr))
             left   == IF lr[1] /= <<>>
                       THEN <<from_bytes_range(lr[1][1], stored.alloc_id, stored.run)>>
                       ELSE <<>>
             right  == IF lr[2] /= <<>>
                       THEN <<from_bytes_range(lr[2][1], stored.alloc_id, stored.run)>>
                       ELSE <<>>
             here   == IF overlap(stored, run_ptr) THEN left \o right ELSE <<stored>>
         IN here \o Updated(all_run_ptrs, k + 1, run_ptr)

\* BasicMemory::derange: the reverse index after removing run_ptr from edge.
derange(ptrs, edge, run_ptr) ==
    IF edge \in DOMAIN ptrs
    THEN LET updated == Updated(ptrs[edge], 1, run_ptr)
         IN IF updated = <<>>
            THEN MapRemove(ptrs, edge)
            ELSE MapInsert(ptrs, edge, updated)
    ELSE ptrs

RECURSIVE DerangeAll(_, _, _, _, _)
\* The loop of remove_ref_below over `removed` from its k-th element on:
\* the reverse index and the Vec all_gone.
DerangeAll(ptrs, removed, k, run_ptr, all_gone) ==
    IF k > Len(removed) THEN [pointers |-> ptrs, all_gone |-> all_gone]
    ELSE LET edge == removed[k]
             next == derange(ptrs, edge, run_ptr)
         IN DerangeAll(next, removed, k + 1, run_ptr,
                       IF edge \notin DOMAIN next THEN Append(all_gone, edge) ELSE all_gone)

remove_ref_below(m, edge, run_ptr) ==
    LET r == remove_all_below(RunAt(m.allocations, run_ptr),
                              run_ptr.offset, run_ptr.size, edge)
        d == DerangeAll(m.pointers, r.edges, 1, run_ptr, <<>>)
    IN [mem      |-> [allocations |-> SetRun(m.allocations, run_ptr, r.run),
                      pointers    |-> d.pointers],
        all_gone |-> d.all_gone]

remove_ref_run_ptr(m, edge, run_ptr) ==
    LET run  == remove_borrow(RunAt(m.allocations, run_ptr),
                              run_ptr.offset, run_ptr.size, edge)
        next == derange(m.pointers, edge, run_ptr)
    IN [mem |-> [allocations |-> SetRun(m.allocations, run_ptr, run),
                 pointers    |-> next],
        out |-> edge \notin DOMAIN next]

\* The query methods of BasicMemory resolve run_ptr to its run.
mem_first_shared(allocs, run_ptr) ==
    first_shared(RunAt(allocs, run_ptr), run_ptr.offset, run_ptr.size)

mem_below_first_shared(allocs, run_ptr) ==
    below_first_shared(RunAt(allocs, run_ptr), run_ptr.offset, run_ptr.size)

mem_can_read_through(allocs, run_ptr, edge) ==
    can_read_through(RunAt(allocs, run_ptr), run_ptr.offset, run_ptr.size, edge)

mem_can_write_through(allocs, run_ptr, edge) ==
    can_write_through(RunAt(allocs, run_ptr), run_ptr.offset, run_ptr.size, edge)

\* -------------------------------------------------------------- driver

Mem == [allocations |-> allocations, pointers |-> pointers]

\* The record of the last store call.
NoRet ==
    [op    |-> "new",     \* the method called
     fatal |-> FALSE]     \* the call panicked

\* RunPointers the driver can form: an existing run and an in-bounds range.
Ptrs(allocs) ==
    UNION {UNION {
        LET size == run_size(allocs[a].runs[r])
        IN {RunPointer(a - 1, r - 1, o, n) :
               o \in 0..size, n \in 0..size} \cap
           {q \in [alloc_id : {a - 1}, run : {r - 1}, offset : 0..size, size : 0..size] :
               q.offset + q.size <= size}
        : r \in 1..Len(allocs[a].runs)} : a \in 1..Len(allocs)}

\* Whether some byte of the run's range [offset, offset + len) carries edge.
Carries(run, offset, len, edge) ==
    \E i \in 1..Len(run.ref_stack) :
        InRange(i - 1, offset, len) /\ position_edge(run.ref_stack[i], edge) /= 0

\* Whether edge is on the stack of any byte of any run.
Borrowed(allocs, edge) ==
    \E a \in 1..Len(allocs) : \E r \in 1..Len(allocs[a].runs) :
        Carries(allocs[a].runs[r], 0, run_size(allocs[a].runs[r]), edge)

\* An edge the projection graph has not handed to the store, or whose
\* borrows are all gone.
Fresh(m, edge) == ~Borrowed(m.allocations, edge) /\ edge \notin DOMAIN m.pointers

\* BasicMemory::new()
InitMem ==
    /\ allocations = <<>>
    /\ pointers = <<>>
    /\ ret = NoRet
    /\ nops = 0
    /\ deallocated = {}

\* BasicMemory::new() followed by one allocate_with_builder call.
Init ==
    /\ \E sizes \in Layouts :
          allocations = allocate_with_builder([allocations |-> <<>>, pointers |-> <<>>],
                                              sizes).allocations
    /\ pointers = <<>>
    /\ ret = [NoRet EXCEPT !.op = "allocate_with_builder"]
    /\ nops = 0
    /\ deallocated = {}

\* The store after a call that returned m.
Becomes(m) ==
    /\ allocations' = m.allocations
    /\ pointers' = m.pointers

Allocate ==
    \E sizes \in Layouts :
        /\ Becomes(allocate_with_builder(Mem, sizes))
        /\ ret' = [NoRet EXCEPT !.op = "allocate_with_builder"]
        /\ UNCHANGED deallocated

Deallocate ==
    \E a \in 0..(Len(allocations) - 1) :
        /\ Becomes(deallocate(Mem, a))
        /\ ret' = [NoRet EXCEPT !.op = "deallocate"]
        /\ deallocated' = deallocated \cup {a}

Bytes ==
    \E p \in Ptrs(allocations) :
        /\ ret' = [NoRet EXCEPT !.op = "bytes", !.fatal = ~bytes_ok(Mem, p)]
        /\ UNCHANGED <<allocations, pointers, deallocated>>

Fill ==
    \E p \in Ptrs(allocations), val \in AbstractByte :
        /\ Becomes(IF fill_ok(Mem, p) THEN fill(Mem, p, val) ELSE Mem)
        /\ ret' = [NoRet EXCEPT !.op = "fill", !.fatal = ~fill_ok(Mem, p)]
        /\ UNCHANGED deallocated

Copy ==
    \E dst \in Ptrs(allocations), src \in Ptrs(allocations) :
        /\ Becomes(IF copy_ok(Mem, dst, src) THEN copy(Mem, dst, src) ELSE Mem)
        /\ ret' = [NoRet EXCEPT !.op = "copy", !.fatal = ~copy_ok(Mem, dst, src)]
        /\ UNCHANGED deallocated

\* The driver never adds an edge over a byte that already carries it.
AddRef ==
    \E p \in Ptrs(allocations), kind \in DriverBorrowTypes, edge \in Edge :
        /\ ~Carries(RunAt(allocations, p), p.offset, p.size, edge)
        /\ Becomes(add_ref(Mem, p, kind, edge))
        /\ ret' = [NoRet EXCEPT !.op = "add_ref"]
        /\ UNCHANGED deallocated

\* The driver copies to a fresh edge; new == old fails assert_ne!, an old
\* that is no key of the index fails the indexing self.pointers[&old].
CopyRef ==
    \E new \in Edge, old \in Edge, kind \in DriverBorrowTypes :
        /\ new = old \/ Fresh(Mem, new)
        /\ LET ok == copy_ref_ok(Mem, new, old)
           IN /\ Becomes(IF ok THEN copy_ref(Mem, new, old, kind) ELSE Mem)
              /\ ret' = [NoRet EXCEPT !.op = "copy_ref", !.fatal = ~ok]
              /\ UNCHANGED deallocated

RemoveRef ==
    \E edge \in Edge :
        /\ Becomes(remove_ref(Mem, edge))
        /\ ret' = [NoRet EXCEPT !.op = "remove_ref"]
        /\ UNCHANGED deallocated

RemoveRefBelow ==
    \E edge \in Edge, p \in Ptrs(allocations) :
        /\ Becomes(remove_ref_below(Mem, edge, p).mem)
        /\ ret' = [NoRet EXCEPT !.op = "remove_ref_below"]
        /\ UNCHANGED deallocated

RemoveRefRunPtr ==
    \E edge \in Edge, p \in Ptrs(allocations) :
        /\ Becomes(remove_ref_run_ptr(Mem, edge, p).mem)
        /\ ret' = [NoRet EXCEPT !.op = "remove_ref_run_ptr"]
        /\ UNCHANGED deallocated

\* One more store call, within the bound. A panic ends the program: no
\* call follows a fatal one.
Tick(bound) ==
    /\ ~ret.fatal
    /\ nops < bound
    /\ nops' = nops + 1

\* The borrow API on one allocation.
Next ==
    \/ Tick(MaxOps) /\ AddRef
    \/ Tick(MaxOps) /\ CopyRef
    \/ Tick(MaxOps) /\ RemoveRef
    \/ Tick(MaxOps) /\ RemoveRefBelow
    \/ Tick(MaxOps) /\ RemoveRefRunPtr

Spec == Init /\ [][Next]_vars

\* The whole store from BasicMemory::new().
NextMem ==
    \/ Tick(MaxMemOps) /\ Allocate
    \/ Tick(MaxMemOps) /\ Deallocate
    \/ Tick(MaxMemOps) /\ Bytes
    \/ Tick(MaxMemOps) /\ Fill
    \/ Tick(MaxMemOps) /\ Copy
    \/ Tick(MaxMemOps) /\ AddRef
    \/ Tick(MaxMemOps) /\ CopyRef
    \/ Tick(MaxMemOps) /\ RemoveRef
    \/ Tick(MaxMemOps) /\ RemoveRefBelow
    \/ Tick(MaxMemOps) /\ RemoveRefRunPtr

SpecMem == InitMem /\ [][NextMem]_vars

\* add_ref and copy_ref as the store accepts them: neither method looks at
\* the stacks or the index before it pushes.
AddRefAny ==
    \E p \in Ptrs(allocations), kind \in DriverBorrowTypes, edge \in Edge :
        /\ Becomes(add_ref(Mem, p, kind, edge))
        /\ ret' = [NoRet EXCEPT !.op = "add_ref"]
        /\ UNCHANGED deallocated

CopyRefAny ==
    \E new \in Edge, old \in Edge, kind \in DriverBorrowTypes :
        LET ok == copy_ref_ok(Mem, new, old)
        IN /\ Becomes(IF ok THEN copy_ref(Mem, new, old, kind) ELSE Mem)
           /\ ret' = [NoRet EXCEPT !.op = "copy_ref", !.fatal = ~ok]
           /\ UNCHANGED deallocated

\* The borrow calls of the store made by any caller on one allocation.
NextApi ==
    \/ Tick(MaxApiOps) /\ AddRefAny
    \/ Tick(MaxApiOps) /\ CopyRefAny
    \/ Tick(MaxApiOps) /\ RemoveRef
    \/ Tick(MaxApiOps) /\ RemoveRefBelow
    \/ Tick(MaxApiOps) /\ RemoveRefRunPtr

SpecApi == Init /\ [][NextApi]_vars

\* ------------------------------------------------- vocabulary of the claims

\* The bytes of the memory: <<allocation id, run id, offset>>.
ByteIds(allocs) ==
    UNION {UNION {
        {<<a - 1, r - 1, y>> : y \in 0..(run_size(allocs[a].runs[r]) - 1)}
        : r \in 1..Len(allocs[a].runs)} : a \in 1..Len(allocs)}

\* The borrow stack and the content of byte b.
StackAt(allocs, b) == allocs[b[1] + 1].runs[b[2] + 1].ref_stack[b[3] + 1]

ByteAt(allocs, b) == allocs[b[1] + 1].runs[b[2] + 1].bytes[b[3] + 1]

OnStack(stack, edge) == \E i \in 1..Len(stack) : stack[i].edge = edge

\* Whether byte b lies in the range of run_ptr.
Covers(run_ptr, b) ==
    /\ run_ptr.alloc_id = b[1]
    /\ run_ptr.run = b[2]
    /\ InRange(b[3], run_ptr.offset, run_ptr.size)

\* The pointer to the single byte b.
ByteRunPtr(b) == RunPointer(b[1], b[2], b[3], 1)

\* Whether the reverse index maps edge to a pointer that covers byte b.
Indexed(ptrs, edge, b) ==
    /\ edge \in DOMAIN ptrs
    /\ \E k \in 1..Len(ptrs[edge]) : Covers(ptrs[edge][k], b)

\* The stack without its borrows of edge, the others in their order.
RECURSIVE Without(_, _)
Without(stack, edge) ==
    IF stack = <<>> THEN <<>>
    ELSE IF Head(stack).edge = edge THEN Without(Tail(stack), edge)
    ELSE <<Head(stack)>> \o Without(Tail(stack), edge)

\* ---------------------------------------------------------------- C1

\* C1: for every edge e and every byte y, e is on y's borrow stack if and
\* only if the reverse index maps e to a RunPointer that covers y.
C1_ReverseIndexConsistent ==
    \A e \in Edge : \A b \in ByteIds(allocations) :
        OnStack(StackAt(allocations, b), e) <=> Indexed(pointers, e, b)

\* ---------------------------------------------------------------- C2

\* A non-empty range whose bytes all have the same stack, with a Shared
\* borrow on it.
UniformShared(allocs, p) ==
    /\ p.size > 0
    /\ \A b \in ByteIds(allocs) :
          Covers(p, b) => StackAt(allocs, b) = StackAt(allocs, <<p.alloc_id, p.run, p.offset>>)
    /\ position_shared(StackAt(allocs, <<p.alloc_id, p.run, p.offset>>)) /= 0

C3_WriteOnEveryByte ==
    \A p \in Ptrs(allocations) : \A e \in Edge :
        (p.size > 0 /\ mem_can_write_through(allocations, p, e)) =>
            /\ \A b \in ByteIds(allocations) :
                  Covers(p, b) => mem_can_write_through(allocations, ByteRunPtr(b), e)
            /\ mem_can_read_through(allocations, p, e)

\* ---------------------------------------------------------------- C4

\* Every borrow stack and the reverse index of m2 are those of m1.
SameBorrows(m1, m2) ==
    /\ ByteIds(m2.allocations) = ByteIds(m1.allocations)
    /\ \A b \in ByteIds(m1.allocations) :
           StackAt(m2.allocations, b) = StackAt(m1.allocations, b)
    /\ m2.pointers = m1.pointers

\* C4: in every reachable state, for every in-bounds pointer p, borrow kind
\* k and fresh edge e, add_ref(p, k, e) followed at once by remove_ref(e)
\* leaves every byte's borrow stack and the reverse index as they were.
C4_RoundTrip ==
    \A p \in Ptrs(allocations), k \in BorrowType, e \in Edge :
        Fresh(Mem, e) =>
            SameBorrows(Mem, remove_ref(add_ref(Mem, p, k, e), e))

\* A fresh edge is added over two bytes that already carry borrows, is
\* then on top of both and in the index, and its removal restores them.
C4_AddedOverBorrows ==
    \E p \in Ptrs(allocations), e \in Edge :
        /\ Fresh(Mem, e)
        /\ p.size >= 2
        /\ \A b \in ByteIds(allocations) :
               Covers(p, b) => StackAt(allocations, b) /= <<>>
        /\ LET added == add_ref(Mem, p, "Exclusive", e)
           IN /\ e \in DOMAIN added.pointers
              /\ \A b \in ByteIds(allocations) :
                     Covers(p, b) <=> OnStack(StackAt(added.allocations, b), e)
              /\ SameBorrows(Mem, remove_ref(added, e))

\* ---------------------------------------------------------------- C5

\* C5: for in-bounds dst and src of equal size in live allocations,
\* overlapping ones included, after copy(dst, src) the bytes of dst are the
\* bytes src held before the call, the bytes outside dst are unchanged, and
\* every borrow stack and the reverse index are as before the call.
C5_CopyContentsOnly ==
    \A dst \in Ptrs(allocations), src \in Ptrs(allocations) :
        (/\ is_live(Mem, dst.alloc_id)
         /\ is_live(Mem, src.alloc_id)
         /\ dst.size = src.size)
        => LET after == copy(Mem, dst, src)
           IN /\ bytes(after, dst) = bytes(Mem, src)
              /\ \A b \in ByteIds(allocations) :
                     ~Covers(dst, b) =>
                         ByteAt(after.allocations, b) = ByteAt(allocations, b)
              /\ SameBorrows(Mem, after)

\* A copy between two overlapping two-byte ranges of one live run whose
\* contents differ, with a borrow on a byte of dst: the copy changes dst.
C5_OverlappingCopy ==
    \E dst \in Ptrs(allocations), src \in Ptrs(allocations) :
        /\ is_live(Mem, dst.alloc_id)
        /\ dst.alloc_id = src.alloc_id /\ dst.run = src.run
        /\ dst.size = 2 /\ src.size = 2
        /\ dst.offset = src.offset + 1
        /\ bytes(Mem, src) = <<"Init", "Uninit">>
        /\ \E b \in ByteIds(allocations) :
               Covers(dst, b) /\ StackAt(allocations, b) /= <<>>
        /\ bytes(copy(Mem, dst, src), dst) = <<"Init", "Uninit">>
        /\ copy(Mem, dst, src) /= Mem

\* ---------------------------------------------------------------- C6

\* The AllocIds handed out so far.
AllocIds == 0..(Len(allocations) - 1)

\* An allocation is live exactly from allocate_with_builder until
\* deallocate has been called with its id; bytes / bytes_mut / fill on a
\* pointer into a deallocated allocation panic and on a pointer into any
\* other allocation succeed; a copy with a pointer into a deallocated
\* allocation panics.
AccessGated ==
    /\ deallocated \subseteq AllocIds
    /\ \A a \in AllocIds : is_live(Mem, a) <=> a \notin deallocated
    /\ \A p \in Ptrs(allocations) :
           /\ bytes_ok(Mem, p) <=> p.alloc_id \notin deallocated
           /\ fill_ok(Mem, p) <=> p.alloc_id \notin deallocated
    /\ \A dst \in Ptrs(allocations), src \in Ptrs(allocations) :
           (dst.alloc_id \in deallocated \/ src.alloc_id \in deallocated)
               => ~copy_ok(Mem, dst, src)

\* One call: no allocation leaves the store or comes back to life, the
\* ids keep their allocations, and a call that panics changes nothing.
DeadStaysDead ==
    /\ Len(allocations') >= Len(allocations)
    /\ deallocated \subseteq deallocated'
    /\ \A a \in AllocIds :
           ~is_live(Mem, a) => ~allocations'[a + 1].live
    /\ ret'.fatal => allocations' = allocations /\ pointers' = pointers

\* C6 as stated: once deallocate(a) has been called is_live(a) stays false
\* whatever follows, ids are never reused, every later bytes / bytes_mut /
\* fill / copy with a pointer into a is a panic that changes no state, and
\* between allocation and deallocation those calls always succeed for
\* in-bounds ranges.
C6_LiveAccessAlwaysSucceeds ==
    /\ [](/\ AccessGated
          /\ \A dst \in Ptrs(allocations), src \in Ptrs(allocations) :
                 (dst.alloc_id \notin deallocated /\ src.alloc_id \notin deallocated)
                     => copy_ok(Mem, dst, src))
    /\ [][DeadStaysDead]_vars

\* C6 amended: as above, but between allocation and deallocation a copy
\* succeeds exactly when dst.size == src.size; bytes / bytes_mut / fill
\* always succeed.
C6_LivenessGate ==
    /\ [](/\ AccessGated
          /\ \A dst \in Ptrs(allocations), src \in Ptrs(allocations) :
                 (dst.alloc_id \notin deallocated /\ src.alloc_id \notin deallocated)
                     => (copy_ok(Mem, dst, src) <=> dst.size = src.size))
    /\ [][DeadStaysDead]_vars

\* A fill into a deallocated allocation has just panicked while another
\* allocation is still live, and the dead one was allocated before it.
C6_FillAfterDeallocate ==
    /\ ret.op = "fill" /\ ret.fatal
    /\ \E a \in deallocated : \E b \in AllocIds :
           a < b /\ is_live(Mem, b) /\ ~is_live(Mem, a)

\* ---------------------------------------------------------------- C7

\* Whether the call that took allocs to after removed edge from the stack
\* of some byte.
RemovedSomewhere(allocs, after, edge) ==
    \E b \in ByteIds(allocs) :
        OnStack(StackAt(allocs, b), edge) /\ ~OnStack(StackAt(after, b), edge)

\* C7: an edge x is in the list remove_ref_below(edge, ptr) returns if and
\* only if the call removed x from some byte's stack and, after the call,
\* x is on no byte's stack anywhere in memory.
C7_AllGoneExact ==
    \A edge \in Edge, p \in Ptrs(allocations) :
        LET r == remove_ref_below(Mem, edge, p)
        IN \A x \in Edge :
              Contains(r.all_gone, x) <=>
                  (/\ RemovedSomewhere(allocations, r.mem.allocations, x)
                   /\ ~Borrowed(r.mem.allocations, x))

\* ---------------------------------------------------------------- C8

\* C8: remove_ref_run_ptr(edge, ptr) takes edge off the stack of every byte
\* of ptr's range, changes no other byte's stack and removes no other
\* edge, and returns true if and only if edge is afterwards on no stack of
\* any byte anywhere in memory.
C8_RunPtrRemoval ==
    \A edge \in Edge, p \in Ptrs(allocations) :
        LET r == remove_ref_run_ptr(Mem, edge, p)
        IN /\ \A b \in ByteIds(allocations) :
                 StackAt(r.mem.allocations, b) =
                     IF Covers(p, b)
                     THEN Without(StackAt(allocations, b), edge)
                     ELSE StackAt(allocations, b)
           /\ r.out <=> ~Borrowed(r.mem.allocations, edge)

\* ---------------------------------------------------------------- C9

\* C9: after remove_ref(edge) the edge is on no byte's stack and has no
\* reverse-index entry, every stack keeps its other borrows in their
\* order, and a call for an edge that is not recorded changes nothing.
C9_TotalRemoval ==
    \A edge \in Edge :
        LET after == remove_ref(Mem, edge)
        IN /\ ~Borrowed(after.allocations, edge)
           /\ edge \notin DOMAIN after.pointers
           /\ \A b \in ByteIds(allocations) :
                 StackAt(after.allocations, b) = Without(StackAt(allocations, b), edge)
           /\ edge \notin DOMAIN pointers => after = Mem

\* --------------------------------------------------------------- C10

\* C10: after copy_ref(new, old, kind) with new fresh and old recorded, a
\* borrow {kind, new} is the last entry of the stack of exactly the bytes
\* old's recorded pointers cover, every stack keeps its previous entries
\* in place, the index maps new to old's pointers and old's entry is
\* unchanged; and for every pointer p, can_read_through(p, new) equals
\* can_read_through(p, old).
C10_CopyRefMirrorsOld ==
    \A new \in Edge, old \in Edge, kind \in BorrowType :
        (Fresh(Mem, new) /\ old \in DOMAIN pointers /\ new /= old) =>
            LET after == copy_ref(Mem, new, old, kind)
            IN /\ \A b \in ByteIds(allocations) :
                     StackAt(after.allocations, b) =
                         IF Indexed(pointers, old, b)
                         THEN Append(StackAt(allocations, b),
                                     [borrow_type |-> kind, edge |-> new])
                         ELSE StackAt(allocations, b)
               /\ after.pointers[new] = pointers[old]
               /\ after.pointers[old] = pointers[old]
               /\ \A p \in Ptrs(allocations) :
                     mem_can_read_through(after.allocations, p, new)
                         = mem_can_read_through(after.allocations, p, old)

\* --------------------------------------------------------------- C11

\* Every byte's borrow stack in m2 is the one it has in m1.
SameStacks(m1, m2) ==
    \A b \in ByteIds(m1.allocations) :
        StackAt(m2.allocations, b) = StackAt(m1.allocations, b)

\* C11: copy_ref(new, old, kind) panics when new == old; when new /= old
\* and old has no reverse-index entry the call completes, pushes nothing
\* onto any stack and leaves new covering no byte.
C11_UnrecordedOldIsNoFailure ==
    \A new \in Edge, old \in Edge, kind \in BorrowType :
        /\ new = old => ~copy_ref_ok(Mem, new, old)
        /\ (new /= old /\ old \notin DOMAIN pointers /\ Fresh(Mem, new)) =>
              /\ copy_ref_ok(Mem, new, old)
              /\ SameStacks(Mem, copy_ref(Mem, new, old, kind))
              /\ ~Borrowed(copy_ref(Mem, new, old, kind).allocations, new)

\* --------------------------------------------------------------- C12

\* The edge of the oldest Shared borrow of a stack, NoEdge when it has none.
OldestShared(stack) ==
    IF \E i \in 1..Len(stack) : stack[i].borrow_type = "Shared"
    THEN LET i == CHOOSE i \in 1..Len(stack) :
                     /\ stack[i].borrow_type = "Shared"
                     /\ \A j \in 1..Len(stack) :
                            stack[j].borrow_type = "Shared" => i <= j
         IN stack[i].edge
    ELSE NoEdge

\* C12: first_shared(ptr) is the edge of the first Shared borrow, counted
\* from the oldest entry, of the stack of ptr's first byte (the first
\* covered sub-interval), none when that stack has no Shared borrow even
\* if a later byte of the range has one, and none for a zero-length range.
C12_FirstSharedOfFirstInterval ==
    \A p \in Ptrs(allocations) :
        mem_first_shared(allocations, p) =
            IF p.size = 0 THEN NoEdge
            ELSE OldestShared(StackAt(allocations, <<p.alloc_id, p.run, p.offset>>))

\* Scenario A: a range p whose first byte carries borrows but no Shared
\* one, and a Shared borrow over a later part q of p; first_shared(q) is
\* the Shared edge, first_shared(p) and first_shared of the empty range
\* are none.
C12_ScenarioA ==
    \E p \in Ptrs(allocations), q \in Ptrs(allocations) :
        /\ p.alloc_id = q.alloc_id /\ p.run = q.run
        /\ p.offset < q.offset /\ q.size > 0
        /\ q.offset + q.size <= p.offset + p.size
        /\ StackAt(allocations, <<p.alloc_id, p.run, p.offset>>) /= <<>>
        /\ mem_first_shared(allocations, q) \in Edge
        /\ mem_first_shared(allocations, p) = NoEdge
        /\ mem_first_shared(allocations,
                            RunPointer(p.alloc_id, p.run, p.offset, 0)) = NoEdge

\* --------------------------------------------------------------- C13

\* 1-based position of the oldest Shared borrow of a stack, 0 when none.
SharedAt(stack) ==
    IF \E i \in 1..Len(stack) : stack[i].borrow_type = "Shared"
    THEN CHOOSE i \in 1..Len(stack) :
            /\ stack[i].borrow_type = "Shared"
            /\ \A j \in 1..Len(stack) : stack[j].borrow_type = "Shared" => i <= j
    ELSE 0

\* The edges found, on the bytes of p that have a Shared borrow, strictly
\* before the oldest Shared entry / at and after it.
BeforeShared(allocs, p) ==
    {e \in Edge : \E b \in ByteIds(allocs) :
        /\ Covers(p, b)
        /\ LET stack == StackAt(allocs, b)
           IN \E i \in 1..Len(stack) :
                 stack[i].edge = e /\ SharedAt(stack) /= 0 /\ i < SharedAt(stack)}

FromShared(allocs, p) ==
    {e \in Edge : \E b \in ByteIds(allocs) :
        /\ Covers(p, b)
        /\ LET stack == StackAt(allocs, b)
           IN \E i \in 1..Len(stack) :
                 stack[i].edge = e /\ SharedAt(stack) /= 0 /\ i >= SharedAt(stack)}

\* Whether seq lists exactly the members of S in ascending order, each once.
AscendingListOf(seq, S) ==
    /\ {seq[i] : i \in 1..Len(seq)} = S
    /\ \A i \in 1..(Len(seq) - 1) : seq[i] < seq[i + 1]

\* C13 as stated: below_first_shared(ptr) lists the edges strictly before
\* the first Shared entry and above_first_shared those at and after it,
\* each as an ascending duplicate-free list of the union over the covered
\* sub-intervals that have a Shared borrow.
C13_BelowIsBeforeShared ==
    \A p \in Ptrs(allocations) :
        /\ AscendingListOf(mem_below_first_shared(allocations, p),
                           BeforeShared(allocations, p))
        /\ AscendingListOf(above_first_shared(RunAt(allocations, p), p.offset, p.size),
                           FromShared(allocations, p))

\* C13 amended: below_first_shared(ptr) lists the edges at and after the
\* first Shared entry, above_first_shared those strictly before it.
C13_BelowIsFromShared ==
    \A p \in Ptrs(allocations) :
        /\ AscendingListOf(mem_below_first_shared(allocations, p),
                           FromShared(allocations, p))
        /\ AscendingListOf(above_first_shared(RunAt(allocations, p), p.offset, p.size),
                           BeforeShared(allocations, p))

\* A range of two bytes with different stacks, both with a Shared borrow
\* and one with an older Exclusive borrow: both lists are non-empty.
C13_SplitAtShared ==
    \E p \in Ptrs(allocations) :
        /\ p.size = 2
        /\ Len(iter(RunAt(allocations, p).ref_stack, p.offset, p.size)) = 2
        /\ \A b \in ByteIds(allocations) :
              Covers(p, b) => SharedAt(StackAt(allocations, b)) /= 0
        /\ mem_below_first_shared(allocations, p) /= <<>>
        /\ above_first_shared(RunAt(allocations, p), p.offset, p.size) /= <<>>

\* --------------------------------------------------------------- C14

\* C14: can_read_through(ptr, edge) is true if and only if edge is on the
\* borrow stack of every byte of ptr's range; true for a zero-length
\* range, false as soon as one covered byte lacks edge.
C14_ReadOnEveryByte ==
    \A p \in Ptrs(allocations), e \in Edge :
        mem_can_read_through(allocations, p, e) <=>
            \A b \in ByteIds(allocations) :
                Covers(p, b) => OnStack(StackAt(allocations, b), e)

\* A remove_ref_run_ptr or remove_ref_below has just left an edge on a
\* proper part of a range: the edge no longer reads through the range,
\* still reads through the part that kept it and through the empty range.
C14_InvalidatedOnPart ==
    /\ ret.op \in {"remove_ref_run_ptr", "remove_ref_below"}
    /\ \E p \in Ptrs(allocations), q \in Ptrs(allocations), e \in Edge :
          /\ p.alloc_id = q.alloc_id /\ p.run = q.run
          /\ p.offset <= q.offset /\ q.offset + q.size <= p.offset + p.size
          /\ 0 < q.size /\ q.size < p.size
          /\ e \in DOMAIN pointers
          /\ ~mem_can_read_through(allocations, p, e)
          /\ mem_can_read_through(allocations, q, e)
          /\ mem_can_read_through(allocations,
                                  RunPointer(p.alloc_id, p.run, p.offset, 0), e)

\* --------------------------------------------------------------- C15

\* C15: a.overlap(b) == b.overlap(a) for all RunPointers a and b, and
\* overlap is true exactly when both have the same allocation id and the
\* same run id and a.start <= b.end and b.start <= a.end on their byte
\* ranges, so that ranges that only touch overlap.
C15_OverlapSymmetric ==
    \A a \in Ptrs(allocations), b \in Ptrs(allocations) :
        /\ overlap(a, b) = overlap(b, a)
        /\ overlap(a, b) <=>
              /\ a.alloc_id = b.alloc_id
              /\ a.run = b.run
              /\ a.offset <= b.offset + b.size
              /\ b.offset <= a.offset + a.size

\* Two allocations exist: two ranges of one run that only touch overlap,
\* as does an empty range at the end of another, while equal ranges of
\* different runs or of different allocations do not.
C15_TouchingAndForeign ==
    \E a \in Ptrs(allocations), b \in Ptrs(allocations),
       c \in Ptrs(allocations), d \in Ptrs(allocations) :
        /\ a.alloc_id = b.alloc_id /\ a.run = b.run
        /\ a.size > 0 /\ b.size > 0 /\ a.offset + a.size = b.offset
        /\ overlap(a, b) /\ overlap(b, a)
        /\ overlap(a, RunPointer(a.alloc_id, a.run, b.offset, 0))
        /\ c.alloc_id = a.alloc_id /\ c.run /= a.run
        /\ c.offset = a.offset /\ c.size = a.size /\ ~overlap(a, c)
        /\ d.alloc_id /= a.alloc_id /\ d.run = a.run
        /\ d.offset = a.offset /\ d.size = a.size /\ ~overlap(d, a)

\* --------------------------------------------------------------- C16

\* The bytes of a half-open range.
BytesOf(range) == range.start..(range.end - 1)

\* The fragments subtract returned, as a sequence of zero to two ranges.
Fragments(lr) == lr[1] \o lr[2]

\* The byte ranges of the in-bounds pointers.
Ranges == {bytes_range(p) : p \in Ptrs(allocations)}

\* C16: for byte ranges a and b that pass the overlap test (touching and
\* empty ranges included) the fragments of a.subtract(b) are non-empty,
\* pairwise disjoint, disjoint from b, contained in a and, with a /\ b,
\* cover a exactly, and from_bytes_range turns each into the pointer with
\* that byte range; ranges that fail the test fail subtract's assertion.
C16_SubtractPartitions ==
    \A a \in Ranges, b \in Ranges :
        /\ subtract_ok(a, b) <=> (a.start <= b.end /\ b.start <= a.end)
        /\ subtract_ok(a, b) =>
              LET fs == Fragments(subtract(a, b))
              IN /\ Len(fs) <= 2
                 /\ \A i \in 1..Len(fs) :
                       /\ BytesOf(fs[i]) /= {}
                       /\ BytesOf(fs[i]) \cap BytesOf(b) = {}
                       /\ BytesOf(fs[i]) \subseteq BytesOf(a)
                       /\ bytes_range(from_bytes_range(fs[i], 0, 0)) = fs[i]
                 /\ \A i \in 1..Len(fs), j \in 1..Len(fs) :
                       i /= j => BytesOf(fs[i]) \cap BytesOf(fs[j]) = {}
                 /\ UNION {BytesOf(fs[i]) : i \in 1..Len(fs)}
                       \cup (BytesOf(a) \cap BytesOf(b)) = BytesOf(a)

\* A remove_ref_run_ptr or remove_ref_below over the middle of a recorded
\* pointer has split it: the index holds the two fragments on either side.
C16_SplitInTwo ==
    /\ ret.op \in {"remove_ref_run_ptr", "remove_ref_below"}
    /\ \E e \in DOMAIN pointers, a \in Ranges, b \in Ranges :
          /\ subtract_ok(a, b)
          /\ Len(Fragments(subtract(a, b))) = 2
          /\ Len(pointers[e]) = 2
          /\ \A i \in 1..2 :
                bytes_range(pointers[e][i]) = Fragments(subtract(a, b))[i]

\* --------------------------------------------------------------- C17

\* C17: in every state reachable through add_ref, copy_ref, remove_ref,
\* remove_ref_below and remove_ref_run_ptr no byte's borrow stack holds
\* two borrows with the same edge.
C17_EdgeOncePerByte ==
    \A b \in ByteIds(allocations) :
        LET stack == StackAt(allocations, b)
        IN \A i \in 1..Len(stack), j \in 1..Len(stack) :
              stack[i].edge = stack[j].edge => i = j

\* --------------------------------------------------------------- C18

\* Whether new is old cut just before old's first borrow of edge: the
\* older entries kept in order, edge and everything after it dropped.
CutBefore(old, new, edge) ==
    /\ Len(new) < Len(old)
    /\ \A i \in 1..Len(new) : new[i] = old[i] /\ old[i].edge /= edge
    /\ old[Len(new) + 1].edge = edge

\* C18: remove_ref_below(edge, ptr) cuts the stack of every byte of ptr's
\* range that carries edge just before edge's position; every other byte's
\* stack, all byte contents and all liveness flags are unchanged.
C18_TruncateAtEdge ==
    \A edge \in Edge, p \in Ptrs(allocations) :
        LET after == remove_ref_below(Mem, edge, p).mem.allocations
        IN /\ ByteIds(after) = ByteIds(allocations)
           /\ \A b \in ByteIds(allocations) :
                 /\ IF Covers(p, b) /\ OnStack(StackAt(allocations, b), edge)
                    THEN CutBefore(StackAt(allocations, b), StackAt(after, b), edge)
                    ELSE StackAt(after, b) = StackAt(allocations, b)
                 /\ ByteAt(after, b) = ByteAt(allocations, b)
           /\ \A a \in 1..Len(allocations) : after[a].live = allocations[a].live

\* A range of two bytes: on one an older borrow lies under edge, on the
\* other a younger borrow lies above it. The call keeps the older borrow,
\* drops edge and the younger one, and leaves alone a byte outside the
\* range that carries edge.
C18_KeepsOlderDropsYounger ==
    \E edge \in Edge, p \in Ptrs(allocations) :
        LET after == remove_ref_below(Mem, edge, p).mem.allocations
        IN /\ p.size = 2
           /\ \E b \in ByteIds(allocations) :
                 /\ Covers(p, b)
                 /\ Len(StackAt(allocations, b)) = 2
                 /\ StackAt(allocations, b)[2].edge = edge
                 /\ Len(StackAt(after, b)) = 1
           /\ \E b \in ByteIds(allocations) :
                 /\ Covers(p, b)
                 /\ Len(StackAt(allocations, b)) = 2
                 /\ StackAt(allocations, b)[1].edge = edge
                 /\ StackAt(after, b) = <<>>
           /\ \E b \in ByteIds(allocations) :
                 /\ ~Covers(p, b)
                 /\ OnStack(StackAt(allocations, b), edge)
                 /\ StackAt(after, b) = StackAt(allocations, b)

\* --------------------------------------------------------------- C19

\* Whether no value occurs twice in seq.
NoDuplicates(seq) ==
    \A i \in 1..Len(seq), j \in 1..Len(seq) : seq[i] = seq[j] => i = j

\* C19: the removed edges Run::remove_all_below returns and the fully dead
\* edges remove_ref_below(edge, ptr) returns each contain an edge at most
\* once, also when ptr's range spans sub-intervals with different stacks.
C19_ResultIsASet ==
    \A edge \in Edge, p \in Ptrs(allocations) :
        /\ NoDuplicates(remove_all_below(RunAt(allocations, p),
                                         p.offset, p.size, edge).edges)
        /\ NoDuplicates(remove_ref_below(Mem, edge, p).all_gone)

\* --------------------------------------------------------------- C20

\* deallocate(a) from this state clears a's live flag and nothing else:
\* a's runs (bytes and borrow stacks), every other allocation and the
\* reverse index are as before.
OnlyLiveFlag ==
    \A a \in AllocIds :
        LET after == deallocate(Mem, a)
        IN /\ ~is_live(after, a)
           /\ Len(after.allocations) = Len(allocations)
           /\ after.allocations[a + 1].runs = allocations[a + 1].runs
           /\ \A o \in AllocIds \ {a} :
                 after.allocations[o + 1] = allocations[o + 1]
           /\ after.pointers = pointers

\* One call: every allocation made so far keeps the number and the sizes
\* of its runs.
RunsFixed ==
    \A a \in AllocIds :
        /\ a + 1 <= Len(allocations')
        /\ Len(allocations'[a + 1].runs) = Len(allocations[a + 1].runs)
        /\ \A r \in 1..Len(allocations[a + 1].runs) :
              /\ run_size(allocations'[a + 1].runs[r]) = run_size(allocations[a + 1].runs[r])
              /\ Len(allocations'[a + 1].runs[r].ref_stack)
                    = Len(allocations[a + 1].runs[r].ref_stack)

\* C20: deallocate(a) changes only a's live flag, leaving byte contents,
\* borrow stacks, the reverse index and all other allocations unchanged;
\* the number and sizes of an allocation's regions never change under any
\* operation.
C20_DeallocateOnlyClearsLive ==
    /\ []OnlyLiveFlag
    /\ [][RunsFixed]_vars

\* deallocate has just returned for an allocation that holds initialised
\* bytes and a borrow whose pointer is still in the reverse index.
C20_DeadButIntact ==
    /\ ret.op = "deallocate"
    /\ \E a \in deallocated :
          /\ ~is_live(Mem, a)
          /\ \E b \in ByteIds(allocations) :
                b[1] = a /\ ByteAt(allocations, b) = "Init"
          /\ \E e \in DOMAIN pointers : \E b \in ByteIds(allocations) :
                /\ b[1] = a
                /\ Indexed(pointers, e, b)
                /\ OnStack(StackAt(allocations, b), e)

====
